---- MODULE Spec2Model ----
(***************************************************************************)
(* The bot process of railway-deployment: the command loop, the market     *)
(* simulator, the Redis connection manager and the shutdown manager, as    *)
(* asyncio coroutines on one event loop.                                   *)
(*                                                                         *)
(* Two variants of the loop live in the repository: the modular one        *)
(* (handlers/command_handler.py, handlers/market_handler.py,               *)
(* infrastructure/redis_manager.py, infrastructure/shutdown_manager.py)    *)
(* and the monolithic one (bot/main.py).  A behaviour runs one of them,    *)
(* chosen in Init by `variant`.                                            *)
(*                                                                         *)
(* Scheduling: asyncio is cooperative.  A step of the model is what one    *)
(* task executes between two suspension points: an action resumes a task   *)
(* at the await it is suspended in (pc[t]) with one outcome of the awaited *)
(* operation and runs the code up to the next await.  The code between     *)
(* awaits is written as operators from a state record to a state record,   *)
(* so that they compose the way the statements do.                         *)
(***************************************************************************)
EXTENDS Integers, Sequences, FiniteSets, TLC

\* ---- bounds of the model
MaxCmds == 2            \* commands the producers push in a behaviour
MaxTicks == 1           \* simulator ticks in a behaviour
MaxAttempts == 8        \* largest max_retries that connect() is called with
MaxCallbacks == 2       \* most callbacks added with add_shutdown_callback

\* ---- program constants
MaxRetries == 5         \* connect(max_retries=5)
MaxDelay == 30          \* min(retry_delay * 2, 30)
InitialDelay == 1       \* retry_delay = 1

\* ---- tasks: the main task (start() awaiting process_commands) and the
\* ---- simulator tasks the loop creates, one per START at most
Main == 0
MaxSims == MaxCmds
Sims == 1..MaxSims
Tasks == 0..MaxSims
PopId == MaxSims + 1    \* the redis_task (brpop) as a member of _tasks

Commands == {"START", "STOP", "PING"}   \* "PING" stands for any other text
Deltas == {-10, 10}                     \* random.uniform(-10, 10), its extremes

\* Outcomes of the store operations.  "ConnectionError" is
\* redis.ConnectionError; "RedisError" is a redis.RedisError that is not a
\* ConnectionError (redis.TimeoutError, ResponseError); "Exception" is an
\* error outside the redis hierarchy (brpop with decode_responses raises
\* UnicodeDecodeError on a payload that is not UTF-8).
PingOutcomes == {"ok", "ConnectionError", "RedisError"}
HsetOutcomes == {"ok", "RedisError"}
BrpopErrors == {"RedisError", "Exception"}

VARIABLES
    variant,            \* "modular" | "monolithic"
    shutdown_event,     \* ShutdownManager.shutdown_event / main.shutdown_event
    running, pnl,       \* TradingBot.running, TradingBot.pnl
    ticks,              \* number of simulator ticks so far (bounded by MaxTicks)
    redis,              \* RedisManager.redis / TradingBot.redis: "None", "unprobed", "ok", "closed"
    lock,               \* RedisManager._connection_lock: -1 free, else the holder
    pc,                 \* pc[t]: the await task t is suspended in
    ctx,                \* ctx[t]: the call site of the pending get_connection/_update_status/cleanup
    attempt,            \* attempt[t]: loop index of connect()
    retry_delay,        \* retry_delay[t] of connect()
    reconnect,          \* reconnect[t]: connect() was called from ensure_connection line 75
    snap,               \* snap[t]: status = bot.get_status() taken before await hset
    cancel_req,         \* cancel_req[k]: task.cancel() was called on simulator k
    market_data_task,   \* CommandHandler._market_data_task: 0 is None
    nsims,              \* simulator tasks created so far
    registry,           \* ShutdownManager._tasks
    redis_task,         \* the brpop task of this iteration
    pop_result,         \* its result
    shutdown_task,      \* the wait_for_shutdown task of this iteration
    race_done,          \* `done` of asyncio.wait
    bot_commands,       \* the list bot_commands in the store, head is the left end
    pushed,             \* commands pushed so far
    bot_status,         \* the hash bot_status in the store
    dispatched,         \* commands handed to _handle_command, in order
    gathered,           \* the tasks asyncio.gather awaits in cancel_tasks
    loop_exit,          \* process_commands: "no", "running", "returned", "raised"
    start_exit,         \* start(): "running", "returned", "raised", "failed"
    max_retries,        \* the max_retries argument of connect(); the callers pass none
    connect_log,        \* history of the connect() calls of the main task, when kept
    stale,              \* tasks whose ping in ensure_connection is on a handle that
                        \* self.redis no longer holds
    callbacks,          \* ShutdownManager._shutdown_callbacks
    cb_log,             \* the callbacks run_shutdown_callbacks has started, in order
    cb_errors,          \* positions in the list of the callbacks whose error
                        \* run_shutdown_callbacks logged
    closes,             \* close() calls made, and aclose() calls issued by them
    ws                  \* one call of wait_with_shutdown: its position, its two
                        \* tasks and its outcome

vars == <<variant, shutdown_event, running, pnl, ticks, redis, lock, pc, ctx,
          attempt, retry_delay, reconnect, snap, cancel_req, market_data_task,
          nsims, registry, redis_task, pop_result, shutdown_task, race_done,
          bot_commands, pushed, bot_status, dispatched, gathered, loop_exit,
          start_exit, max_retries, connect_log, stale, callbacks, cb_log,
          cb_errors, closes, ws>>

\* The state as a record, and its assignment to the next state.
State == [variant |-> variant, shutdown_event |-> shutdown_event,
          running |-> running, pnl |-> pnl, ticks |-> ticks, redis |-> redis,
          lock |-> lock, pc |-> pc, ctx |-> ctx, attempt |-> attempt,
          retry_delay |-> retry_delay, reconnect |-> reconnect, snap |-> snap,
          cancel_req |-> cancel_req, market_data_task |-> market_data_task,
          nsims |-> nsims, registry |-> registry, redis_task |-> redis_task,
          pop_result |-> pop_result, shutdown_task |-> shutdown_task,
          race_done |-> race_done, bot_commands |-> bot_commands,
          pushed |-> pushed, bot_status |-> bot_status,
          dispatched |-> dispatched, gathered |-> gathered,
          loop_exit |-> loop_exit, start_exit |-> start_exit,
          max_retries |-> max_retries, connect_log |-> connect_log,
          stale |-> stale, callbacks |-> callbacks, cb_log |-> cb_log,
          cb_errors |-> cb_errors, closes |-> closes, ws |-> ws,
          go |-> "", who |-> Main, arg |-> ""]

Set(s) ==
    /\ variant' = s.variant
    /\ shutdown_event' = s.shutdown_event
    /\ running' = s.running
    /\ pnl' = s.pnl
    /\ ticks' = s.ticks
    /\ redis' = s.redis
    /\ lock' = s.lock
    /\ pc' = s.pc
    /\ ctx' = s.ctx
    /\ attempt' = s.attempt
    /\ retry_delay' = s.retry_delay
    /\ reconnect' = s.reconnect
    /\ snap' = s.snap
    /\ cancel_req' = s.cancel_req
    /\ market_data_task' = s.market_data_task
    /\ nsims' = s.nsims
    /\ registry' = s.registry
    /\ redis_task' = s.redis_task
    /\ pop_result' = s.pop_result
    /\ shutdown_task' = s.shutdown_task
    /\ race_done' = s.race_done
    /\ bot_commands' = s.bot_commands
    /\ pushed' = s.pushed
    /\ bot_status' = s.bot_status
    /\ dispatched' = s.dispatched
    /\ gathered' = s.gathered
    /\ loop_exit' = s.loop_exit
    /\ start_exit' = s.start_exit
    /\ max_retries' = s.max_retries
    /\ connect_log' = s.connect_log
    /\ stale' = s.stale
    /\ callbacks' = s.callbacks
    /\ cb_log' = s.cb_log
    /\ cb_errors' = s.cb_errors
    /\ closes' = s.closes
    /\ ws' = s.ws

NoSnap == [running |-> "", pnl |-> 0, positions |-> 0]
NoCmd == [id |-> 0, cmd |-> ""]

\* no connect() call on record
NoCall == [probes |-> 0, waits |-> <<>>, how |-> "none"]
\* the history is not kept
NoLog == [on |-> FALSE, probes |-> 0, waits |-> <<>>, last |-> NoCall]

\* the objects after construction
Boot ==
    /\ variant \in {"modular", "monolithic"}
    /\ shutdown_event = FALSE
    /\ running = FALSE
    /\ pnl = 0
    /\ ticks = 0
    /\ redis = "None"
    /\ lock = -1
    /\ pc = [t \in Tasks |-> IF t = Main THEN "start" ELSE "none"]
    /\ ctx = [t \in Tasks |-> "none"]
    /\ attempt = [t \in Tasks |-> 0]
    /\ retry_delay = [t \in Tasks |-> InitialDelay]
    /\ reconnect = [t \in Tasks |-> FALSE]
    /\ snap = [t \in Tasks |-> NoSnap]
    /\ cancel_req = [t \in Tasks |-> FALSE]
    /\ market_data_task = 0
    /\ nsims = 0
    /\ registry = {}
    /\ redis_task = "none"
    /\ pop_result = NoCmd
    /\ shutdown_task = "none"
    /\ race_done = {}
    /\ bot_commands = <<>>
    /\ pushed = 0
    /\ bot_status = NoSnap
    /\ dispatched = <<>>
    /\ gathered = {}
    /\ loop_exit = "no"
    /\ start_exit = "running"
    /\ stale = {}
    /\ cb_log = <<>>
    /\ cb_errors = {}
    /\ closes = [calls |-> 0, releases |-> 0]

\* wait_with_shutdown has not been called
NoWait ==
    [pos |-> "idle", kind |-> "none", timeout |-> FALSE, on_cancel |-> "none",
     main |-> "none", sd |-> "none", raced |-> FALSE, done |-> {},
     todo |-> <<>>, cur |-> "none", outcome |-> "none", swallowed |-> FALSE]

\* the callbacks the orchestrator's start() adds: the connection close, and
\* nothing else
shutdown_callbacks == <<"close">>

\* the program as it is started: connect() with its default max_retries
Init ==
    /\ Boot
    /\ max_retries = MaxRetries
    /\ connect_log = NoLog
    /\ callbacks = IF variant = "modular" THEN shutdown_callbacks ELSE <<>>
    /\ ws = NoWait

\* ------------------------------------------------------------------------
\* core/trading_bot.py

\* str(bool) of Python
PyStr(b) == IF b THEN "True" ELSE "False"

get_status(s) == [running |-> PyStr(s.running), pnl |-> s.pnl, positions |-> 0]

\* the flag is left as it was
start_trading_Noop(s) == s

start_trading(s) == [s EXCEPT !.running = TRUE]

\* the flag is left as it was
stop_trading_Noop(s) == s

stop_trading(s) == [s EXCEPT !.running = FALSE]

update_pnl(s, change) == [s EXCEPT !.pnl = @ + change, !.ticks = @ + 1]

\* ------------------------------------------------------------------------
\* helpers on tasks

\* task t suspends in the await named label
At(s, t, label) == [s EXCEPT !.pc[t] = label, !.go = ""]

\* not task.done()
Live(s, k) == k \in 1..s.nsims /\ s.pc[k] \notin {"done", "cancelled"}

\* no done-callback: an ended task stays in the registry
done_callback_Keep(s, id) == s

\* task.add_done_callback(self._tasks.discard): run by the event loop when
\* the task ends, before any coroutine that awaits the task resumes.  No code
\* reads _tasks between the end of a task and this callback, so the two are
\* one step.
done_callback(s, id) == [s EXCEPT !.registry = @ \ {id}]

\* A simulator task ends (how: "done" by returning, "cancelled" by CancelledError).
Finish(s, k, how) ==
    done_callback([s EXCEPT !.pc[k] = how, !.cancel_req[k] = FALSE, !.go = "",
                            !.ctx[k] = "none", !.snap[k] = NoSnap,
                            !.attempt[k] = 0, !.retry_delay[k] = InitialDelay,
                            !.reconnect[k] = FALSE, !.stale = @ \ {k}], k)

\* ShutdownManager.register_task
register_task(s, id) == [s EXCEPT !.registry = @ \cup {id}]

\* task.cancel() on a simulator task
Cancel(s, k) == [s EXCEPT !.cancel_req[k] = TRUE]


\* ------------------------------------------------------------------------
\* The code between two awaits.  Each piece of code is an operator from the
\* state to the state; where the source continues with another piece (a
\* call, a return to the caller, the next statement after a branch) the
\* operator names it with Goto, and Run executes the pieces one after the
\* other until the task suspends (At) or ends (Finish, StartDone).

Goto(s, label, t, a) == [s EXCEPT !.go = label, !.who = t, !.arg = a]

\* ------------------------------------------------------------------------
\* handlers/market_handler.py, main.py market_data_handler

\* the while condition of the simulator; leaving the loop ends the task
SimLoop(s, k) ==
    IF s.running /\ ~s.shutdown_event
    THEN At(s, k, "tick_wait")
    ELSE Finish(s, k, "done")

\* the error leaves the coroutine and ends the task
SimError_Propagate(s, k) == [Finish(s, k, "done") EXCEPT !.pc[k] = "error"]

\* except Exception (market_handler.py line 34): the 5 s wait
SimError(s, k) == At(s, k, "err_wait")

\* the tick without the check that follows the wait
simulate_trading_activity_Unchecked(s, k, d) ==
    Goto(update_pnl(s, d), "update_status", k, "tick")

\* one tick after the 1 s wait timed out: _simulate_trading_activity
simulate_trading_activity(s, k, d) ==
    IF s.running /\ ~s.shutdown_event
    THEN Goto(update_pnl(s, d), "update_status", k, "tick")
    ELSE SimLoop(s, k)

\* ------------------------------------------------------------------------
\* infrastructure/redis_manager.py, main.py connect_redis/ensure_redis_connection

\* task t assigns v to self.redis: the pings of ensure_connection that other
\* tasks have in flight are on the object self.redis held before
Replace(s, t, v) ==
    [s EXCEPT !.redis = v,
              !.stale = @ \cup {u \in Tasks : u # t /\ s.pc[u] = "ping_ensure"}]

\* connect() is given a shutdown event by start(); get_connection() passes
\* none.  main.py uses the global event everywhere.
UsesEvent(s, t) == s.variant = "monolithic" \/ s.ctx[t] = "init"

\* leaving `async with self._connection_lock`
Release(s, t) == IF s.lock = t THEN [s EXCEPT !.lock = -1] ELSE s

\* after connect() returned to its caller: start(), or ensure_connection
\* (line 69 after the first connect, the return after the reconnect)
AfterConnect(s, t) ==
    IF s.ctx[t] = "init" THEN Goto(s, "AfterInitConnect", t, "")
    ELSE IF s.reconnect[t] THEN Goto(s, "get_connection_return", t, "")
    ELSE IF s.redis # "None" THEN At(s, t, "ping_ensure")
    ELSE Goto(s, "get_connection_return", t, "")

\* history of a connect() call of the main task: the call begins, a ping is
\* issued, a wait of d seconds begins, the call ends
LogCall(s, t) ==
    IF s.connect_log.on /\ t = Main
    THEN [s EXCEPT !.connect_log.probes = 0, !.connect_log.waits = <<>>]
    ELSE s
LogProbe(s, t) ==
    IF s.connect_log.on /\ t = Main
    THEN [s EXCEPT !.connect_log.probes = @ + 1]
    ELSE s
LogWait(s, t, d) ==
    IF s.connect_log.on /\ t = Main
    THEN [s EXCEPT !.connect_log.waits = Append(@, d)]
    ELSE s
LogEnd(s, t, how) ==
    IF s.connect_log.on /\ t = Main
    THEN [s EXCEPT !.connect_log.last = [probes |-> s.connect_log.probes,
                                         waits |-> s.connect_log.waits,
                                         how |-> how],
                   !.connect_log.probes = 0, !.connect_log.waits = <<>>]
    ELSE s

\* connect() returns: the lock is released, its locals die
ConnectReturn(s, t) ==
    Goto([Release(s, t) EXCEPT !.attempt[t] = 0,
                               !.retry_delay[t] = InitialDelay],
         "AfterConnect", t, "")

\* the error leaves connect() with the lock still held
ConnectRaise_KeepLock(s, t, err) ==
    Goto([s EXCEPT !.attempt[t] = 0, !.retry_delay[t] = InitialDelay],
         "get_connection_raise", t, err)

\* connect() raises: the lock is released, the error reaches the caller
ConnectRaise(s, t, err) ==
    Goto([Release(s, t) EXCEPT !.attempt[t] = 0,
                               !.retry_delay[t] = InitialDelay],
         "get_connection_raise", t, err)

\* one turn of `for attempt in range(max_retries)` up to `await ping()`
connect_attempt(s, t) ==
    IF UsesEvent(s, t) /\ s.shutdown_event
    THEN ConnectReturn(LogEnd(s, t, "aborted"), t)
    ELSE At(LogProbe(Replace(s, t, "unprobed"), t), t, "ping_connect")

\* connect() from the lock on
connect_locked(s, t) ==
    IF s.variant = "modular" /\ s.redis # "None"
    THEN ConnectReturn(s, t)
    ELSE Goto(LogCall([s EXCEPT !.attempt[t] = 0, !.retry_delay[t] = InitialDelay], t),
              "connect_attempt", t, "")

\* connect(): asyncio.Lock is granted at once when free and nobody waits
connect(s, t) ==
    IF s.variant = "monolithic" THEN Goto(s, "connect_locked", t, "")
    ELSE IF s.lock = -1 /\ \A u \in Tasks : s.pc[u] # "lock_wait"
    THEN Goto([s EXCEPT !.lock = t], "connect_locked", t, "")
    ELSE At(s, t, "lock_wait")

\* doubling without the cap
NextDelay_Uncapped(d) == d * 2

\* min(retry_delay * 2, 30)
NextDelay(d) == IF d * 2 < MaxDelay THEN d * 2 ELSE MaxDelay

\* the last failure is raised to the caller
connect_ping_RaiseWhenExhausted(s, t, o) ==
    IF o = "ok"
    THEN ConnectReturn(LogEnd([s EXCEPT !.redis = IF @ = "unprobed" THEN "ok" ELSE @],
                              t, "connected"), t)
    ELSE IF o = "ConnectionError" /\ s.attempt[t] < s.max_retries - 1
    THEN At(LogWait(Replace(s, t, "None"), t, s.retry_delay[t]), t, "backoff")
    ELSE ConnectRaise(LogEnd(Replace(s, t, "None"), t, "raised"), t, o)

\* await self.redis.ping() in connect() resumes
connect_ping(s, t, o) ==
    IF o = "ok"
    THEN ConnectReturn(LogEnd([s EXCEPT !.redis = IF @ = "unprobed" THEN "ok" ELSE @],
                              t, "connected"), t)
    ELSE IF o = "ConnectionError"
    THEN LET s1 == Replace(s, t, "None") IN
         IF s.attempt[t] < s.max_retries - 1
         THEN At(LogWait(s1, t, s.retry_delay[t]), t, "backoff")
         ELSE ConnectReturn(LogEnd(s1, t, "exhausted"), t)
    ELSE ConnectRaise(LogEnd(s, t, "raised"), t, o)

\* the wait between two attempts resumes
connect_backoff(s, t, o) ==
    IF o = "shutdown"
    THEN ConnectReturn(LogEnd(s, t, "aborted"), t)
    ELSE Goto([s EXCEPT !.retry_delay[t] = NextDelay(@), !.attempt[t] = @ + 1],
              "connect_attempt", t, "")

\* ensure_connection()
ensure_connection(s, t) ==
    IF s.redis = "None"
    THEN Goto([s EXCEPT !.reconnect[t] = FALSE], "connect", t, "")
    ELSE At([s EXCEPT !.reconnect[t] = FALSE], t, "ping_ensure")

\* await self.redis.ping() in ensure_connection() resumes
ensure_ping(s, t, o) ==
    LET s0 == [s EXCEPT !.stale = @ \ {t}] IN
    IF o = "ok"
    THEN Goto([s0 EXCEPT !.redis = IF @ = "unprobed" /\ t \notin s.stale
                                   THEN "ok" ELSE @],
              "get_connection_return", t, "")
    ELSE IF o = "ConnectionError"
    THEN Goto([Replace(s0, t, "None") EXCEPT !.reconnect[t] = TRUE], "connect", t, "")
    ELSE Goto(s0, "get_connection_raise", t, o)

\* get_connection() called from call site c
get_connection(s, t, c) == Goto([s EXCEPT !.ctx[t] = c], "ensure_connection", t, "")

\* ------------------------------------------------------------------------
\* CommandHandler._update_status, TradingBot.update_status

\* the record is built from the pnl of the record the store holds
publish_StoredPnl(s, t) ==
    IF s.redis = "None"
    THEN Goto(s, "AfterUpdateStatus", t, "")
    ELSE At([s EXCEPT !.snap[t] = [get_status(s) EXCEPT !.pnl = s.bot_status.pnl]],
            t, "hset")

\* `if not redis_conn: return`, then up to `await redis_conn.hset(...)`
publish(s, t) ==
    IF s.redis = "None"
    THEN Goto(s, "AfterUpdateStatus", t, "")
    ELSE At([s EXCEPT !.snap[t] = get_status(s)], t, "hset")

\* _update_status called from call site c
update_status(s, t, c) ==
    IF s.variant = "modular"
    THEN get_connection(s, t, c)
    ELSE Goto([s EXCEPT !.ctx[t] = c], "publish", t, "")

\* await hset resumes; a RedisError is logged
hset_done(s, t, o) ==
    Goto([s EXCEPT !.snap[t] = NoSnap,
                   !.bot_status = IF o = "ok" THEN s.snap[t] ELSE @],
         "AfterUpdateStatus", t, "")

\* ------------------------------------------------------------------------
\* infrastructure/shutdown_manager.py and the end of start()

\* start() is over, and main() with it; asyncio.run() cancels the tasks left
StartDone(s, how) ==
    [s EXCEPT !.pc[Main] = "done", !.ctx[Main] = "none", !.go = "",
              !.start_exit = how,
              !.running = IF s.variant = "monolithic" THEN FALSE ELSE @,
              !.shutdown_event = IF s.variant = "monolithic" /\ how # "returned"
                                 THEN TRUE ELSE @,
              !.cancel_req = [k \in Tasks |-> Live(s, k)]]

\* how start() ends once the teardown is through
StartOutcome(s) ==
    IF s.variant = "monolithic" /\ s.loop_exit = "raised"
    THEN "raised" ELSE "returned"

\* close() returned: to run_shutdown_callbacks, or to the end of start() in
\* main.py
AfterClose(s) ==
    IF s.variant = "modular"
    THEN Goto(s, "run_shutdown_callbacks", Main, "")
    ELSE StartDone(s, StartOutcome(s))

\* `if self.redis: await self.redis.aclose()`
close(s) ==
    LET s1 == [s EXCEPT !.closes.calls = @ + 1] IN
    IF s.redis # "None"
    THEN At([s1 EXCEPT !.closes.releases = @ + 1], Main, "aclose")
    ELSE AfterClose(s1)

\* the handle survives the close
aclose_done_KeepHandle(s) == AfterClose(s)

\* await aclose() resumes: `self.redis = None` (main.py keeps the closed handle)
aclose_done(s) ==
    AfterClose(Replace(s, Main, IF s.variant = "modular" THEN "None" ELSE "closed"))

\* run_shutdown_callbacks(): the next callback of the list is called; close
\* is the connection close, any other callback is a coroutine function with
\* one await
run_shutdown_callbacks(s) ==
    IF Len(s.cb_log) < Len(s.callbacks)
    THEN LET c == s.callbacks[Len(s.cb_log) + 1]
             s1 == [s EXCEPT !.cb_log = Append(@, c)]
         IN IF c = "close" THEN Goto(s1, "close", Main, "")
            ELSE At(s1, Main, "callback")
    ELSE StartDone(s, StartOutcome(s))

\* the error of a callback ends run_shutdown_callbacks and shutdown()
callback_done_Propagate(s, o) ==
    IF o = "Exception"
    THEN StartDone([s EXCEPT !.cb_errors = @ \cup {Len(s.cb_log)}], "raised")
    ELSE Goto(s, "run_shutdown_callbacks", Main, "")

\* `await callback()` resumes: `except Exception` logs an error, and the for
\* loop goes on either way
callback_done(s, o) ==
    Goto(IF o = "Exception"
         THEN [s EXCEPT !.cb_errors = @ \cup {Len(s.cb_log)}]
         ELSE s,
         "run_shutdown_callbacks", Main, "")

\* the tasks are cancelled and not awaited
cancel_tasks_NoGather(s) ==
    Goto([s EXCEPT !.cancel_req = [k \in Tasks |-> @[k] \/ k \in s.registry],
                   !.redis_task = IF PopId \in s.registry /\ @ = "pending"
                                  THEN "cancelling" ELSE @,
                   !.gathered = s.registry],
         "run_shutdown_callbacks", Main, "")

\* cancel_tasks() up to `await asyncio.gather(...)`
cancel_tasks(s) ==
    IF s.registry = {}
    THEN Goto(s, "run_shutdown_callbacks", Main, "")
    ELSE At([s EXCEPT !.cancel_req = [k \in Tasks |-> @[k] \/ k \in s.registry],
                      !.redis_task = IF PopId \in s.registry /\ @ = "pending"
                                     THEN "cancelling" ELSE @,
                      !.gathered = s.registry],
            Main, "gather")

\* shutdown()
shutdown(s) == Goto(s, "cancel_tasks", Main, "")

\* the orchestrator's start() once process_commands returned or raised:
\* shutdown(), on either path
orchestrator_teardown(s) == shutdown(s)

\* the teardown as straight-line code after the loop, not as a finally clause
AfterLoop_NoFinally(s, how) ==
    LET s1 == [s EXCEPT !.loop_exit = how, !.ctx[Main] = "none"] IN
    IF s.variant = "monolithic" /\ how = "raised"
    THEN StartDone(s1, "raised")
    ELSE IF s.variant = "monolithic"
    THEN update_status([s1 EXCEPT !.running = FALSE], Main, "teardown")
    ELSE orchestrator_teardown(s1)

\* the finally clause publishes without clearing the flag
AfterLoop_KeepRunning(s, how) ==
    LET s1 == [s EXCEPT !.loop_exit = how, !.ctx[Main] = "none"] IN
    IF s.variant = "monolithic"
    THEN update_status(s1, Main, "teardown")
    ELSE orchestrator_teardown(s1)

\* process_commands handed control back to start(): the finally clause of
\* main.py, shutdown() in the modular orchestrator
AfterLoop(s, how) ==
    LET s1 == [s EXCEPT !.loop_exit = how, !.ctx[Main] = "none"] IN
    IF s.variant = "monolithic"
    THEN update_status([s1 EXCEPT !.running = FALSE], Main, "teardown")
    ELSE orchestrator_teardown(s1)

\* ------------------------------------------------------------------------
\* handlers/command_handler.py, main.py process_commands

\* STOP returns to the loop without a publish
AfterCleanup_NoPublish(s, c) ==
    IF c = "dispatch"
    THEN Goto(s, "LoopTop", Main, "")
    ELSE Goto(s, "AfterLoop", Main, "returned")

\* what follows _cleanup_market_task at call site c
AfterCleanup(s, c) ==
    IF c = "dispatch"
    THEN update_status(s, Main, "dispatch")
    ELSE Goto(s, "AfterLoop", Main, "returned")

\* the simulator is cancelled and not awaited
cleanup_market_task_NoAwait(s, c) ==
    LET k == s.market_data_task IN
    IF k # 0 /\ Live(s, k)
    THEN AfterCleanup(Cancel(s, k), c)
    ELSE AfterCleanup(s, c)

\* _cleanup_market_task() up to `await self._market_data_task`
cleanup_market_task(s, c) ==
    LET k == s.market_data_task IN
    IF k # 0 /\ Live(s, k)
    THEN At([Cancel(s, k) EXCEPT !.ctx[Main] = c], Main, "await_sim")
    ELSE AfterCleanup(s, c)

\* `await self._market_data_task` resumes
cleanup_done(s) ==
    AfterCleanup([s EXCEPT !.market_data_task =
                      IF s.variant = "modular" THEN 0 ELSE @],
                 s.ctx[Main])

\* the error is logged and the loop goes on at once
Cooldown_Retry(s, err) == Goto([s EXCEPT !.ctx[Main] = "none"], "LoopTop", Main, "")

\* the two except clauses of the loop: 5 s after a RedisError, 1 s otherwise
Cooldown(s, err) ==
    At([s EXCEPT !.ctx[Main] = "none"], Main,
       IF err = "Exception" THEN "cooldown1" ELSE "cooldown5")

\* a START spawns a simulator whatever the handle holds
NeedsSimulator_Always(s) == TRUE

\* `if not self._market_data_task or self._market_data_task.done()`
NeedsSimulator(s) ==
    s.market_data_task = 0 \/ ~Live(s, s.market_data_task)

\* asyncio.create_task(market_handler.handle_market_data(bot)) and register_task
spawn(s) ==
    LET k == s.nsims + 1
        s1 == [s EXCEPT !.nsims = k, !.pc[k] = "created", !.market_data_task = k]
    IN IF s.variant = "modular" THEN register_task(s1, k) ELSE s1

\* any other text is a status refresh
handle_command_UnknownRefreshes(s, c) ==
    LET s0 == [s EXCEPT !.dispatched = Append(@, c), !.pop_result = NoCmd] IN
    IF c.cmd = "START"
    THEN LET s1 == IF ~s0.running THEN start_trading(s0) ELSE s0
             s2 == IF NeedsSimulator(s1) THEN spawn(s1) ELSE s1
         IN update_status(s2, Main, "dispatch")
    ELSE IF c.cmd = "STOP"
    THEN cleanup_market_task(stop_trading(s0), "dispatch")
    ELSE update_status(s0, Main, "dispatch")

\* a START that finds the bot running publishes nothing
handle_command_QuietRestart(s, c) ==
    LET s0 == [s EXCEPT !.dispatched = Append(@, c), !.pop_result = NoCmd] IN
    IF c.cmd = "START"
    THEN IF s0.running /\ ~NeedsSimulator(s0)
         THEN Goto(s0, "LoopTop", Main, "")
         ELSE LET s1 == start_trading(s0)
                  s2 == IF NeedsSimulator(s1) THEN spawn(s1) ELSE s1
              IN update_status(s2, Main, "dispatch")
    ELSE IF c.cmd = "STOP"
    THEN cleanup_market_task(stop_trading(s0), "dispatch")
    ELSE Goto(s0, "LoopTop", Main, "")

\* _handle_command(cmd, bot) up to its first await
handle_command(s, c) ==
    LET s0 == [s EXCEPT !.dispatched = Append(@, c), !.pop_result = NoCmd] IN
    IF c.cmd = "START"
    THEN LET s1 == IF ~s0.running THEN start_trading(s0) ELSE s0
             s2 == IF NeedsSimulator(s1) THEN spawn(s1) ELSE s1
         IN update_status(s2, Main, "dispatch")
    ELSE IF c.cmd = "STOP"
    THEN cleanup_market_task(stop_trading(s0), "dispatch")
    ELSE Goto(s0, "LoopTop", Main, "")

\* the pop is issued whatever get_connection() returned
AfterConnLoop_PopAnyway(s) ==
    LET s1 == [s EXCEPT !.redis_task = "pending", !.shutdown_task = "pending",
                        !.ctx[Main] = "none"]
    IN At(IF s.variant = "modular" THEN register_task(s1, PopId) ELSE s1,
          Main, "race")

\* the loop body after `redis_conn = await get_connection()`
AfterConnLoop(s) ==
    IF s.redis = "None"
    THEN At(s, Main, "noconn_wait")
    ELSE LET s1 == [s EXCEPT !.redis_task = "pending", !.shutdown_task = "pending",
                             !.ctx[Main] = "none"]
         IN At(IF s.variant = "modular" THEN register_task(s1, PopId) ELSE s1,
               Main, "race")

\* whether the loop breaks after the race: `shutdown_task in done` in
\* command_handler.py, `shutdown_event.is_set()` in main.py
ShutdownWon(s) ==
    IF s.variant = "modular"
    THEN "shutdown" \in s.race_done
    ELSE s.shutdown_event

\* the loop body after the pending task was cancelled and awaited
AfterRace(s) ==
    LET s1 == [s EXCEPT !.redis_task = "none", !.shutdown_task = "none",
                        !.race_done = {}]
    IN IF ShutdownWon(s)
       THEN Goto([s1 EXCEPT !.pop_result = NoCmd], "LoopExit", Main, "")
       ELSE IF "redis" \in s.race_done
       THEN IF s.redis_task = "result"
            THEN Goto(s1, "handle_command", Main, "")
            ELSE Cooldown(s1, s.redis_task)
       ELSE Goto(s1, "LoopTop", Main, "")

\* asyncio.wait returned: `done, pending`; the pending task is cancelled
race_return(s) ==
    LET d == (IF s.redis_task # "pending" THEN {"redis"} ELSE {})
             \cup (IF s.shutdown_task = "done" THEN {"shutdown"} ELSE {})
        s1 == [s EXCEPT !.race_done = d,
                        !.redis_task = IF @ = "pending" THEN "cancelling" ELSE @,
                        !.shutdown_task = IF @ = "pending" THEN "cancelling" ELSE @]
    IN IF d = {"redis", "shutdown"}
       THEN Goto(s1, "AfterRace", Main, "")
       ELSE At(s1, Main, "drain")

\* the loop was left by break: line 87, main.py lines 187-194
LoopExit(s) == cleanup_market_task(s, "exit")

\* `while not is_shutdown_requested`, then line 21
LoopTop(s) ==
    IF s.shutdown_event
    THEN Goto(s, "LoopExit", Main, "")
    ELSE get_connection(s, Main, "loop")

\* a wait of the loop that races the shutdown event resumes
loop_wait_done(s, o) ==
    IF o = "shutdown"
    THEN Goto(s, "LoopExit", Main, "")
    ELSE Goto(s, "LoopTop", Main, "")

\* get_connection() returns self.redis to its call site
get_connection_return(s, t) ==
    LET s1 == [s EXCEPT !.reconnect[t] = FALSE] IN
    IF s.ctx[t] = "loop"
    THEN Goto(s1, "AfterConnLoop", t, "")
    ELSE Goto(s1, "publish", t, "")

\* get_connection() raises err at its call site: line 21 is outside the try
\* of the loop; in _handle_command the except clauses of the loop catch it;
\* in the simulator `except Exception` does; in start() nothing does
get_connection_raise(s, t, err) ==
    LET s1 == [s EXCEPT !.reconnect[t] = FALSE] IN
    IF s.ctx[t] = "loop" THEN Goto(s1, "AfterLoop", Main, "raised")
    ELSE IF s.ctx[t] = "dispatch" THEN Cooldown(s1, err)
    ELSE IF s.ctx[t] = "tick" THEN SimError(s1, t)
    ELSE StartDone(s1, "failed")

\* _update_status returned to its call site
AfterUpdateStatus(s, t) ==
    IF s.ctx[t] = "dispatch" THEN Goto([s EXCEPT !.ctx[t] = "none"], "LoopTop", t, "")
    ELSE IF s.ctx[t] = "tick" THEN SimLoop([s EXCEPT !.ctx[t] = "none"], t)
    ELSE IF s.ctx[t] = "init_status"
    THEN Goto([s EXCEPT !.loop_exit = "running"], "LoopTop", t, "")
    ELSE Goto(s, "close", t, "")

\* start() after the initial connect: the initial status, then process_commands
AfterInitConnect(s) ==
    update_status([s EXCEPT !.running = IF s.variant = "monolithic" THEN FALSE ELSE @],
                  Main, "init_status")

\* ------------------------------------------------------------------------
\* Running the pieces of one step

Step(s) ==
    CASE s.go = "AfterConnect" -> AfterConnect(s, s.who)
      [] s.go = "connect_attempt" -> connect_attempt(s, s.who)
      [] s.go = "connect_locked" -> connect_locked(s, s.who)
      [] s.go = "connect" -> connect(s, s.who)
      [] s.go = "ensure_connection" -> ensure_connection(s, s.who)
      [] s.go = "publish" -> publish(s, s.who)
      [] s.go = "update_status" -> update_status(s, s.who, s.arg)
      [] s.go = "get_connection_return" -> get_connection_return(s, s.who)
      [] s.go = "get_connection_raise" -> get_connection_raise(s, s.who, s.arg)
      [] s.go = "AfterUpdateStatus" -> AfterUpdateStatus(s, s.who)
      [] s.go = "AfterInitConnect" -> AfterInitConnect(s)
      [] s.go = "AfterConnLoop" -> AfterConnLoop(s)
      [] s.go = "AfterRace" -> AfterRace(s)
      [] s.go = "handle_command" -> handle_command(s, s.pop_result)
      [] s.go = "LoopTop" -> LoopTop(s)
      [] s.go = "LoopExit" -> LoopExit(s)
      [] s.go = "AfterLoop" -> AfterLoop(s, s.arg)
      [] s.go = "cancel_tasks" -> cancel_tasks(s)
      [] s.go = "run_shutdown_callbacks" -> run_shutdown_callbacks(s)
      [] s.go = "close" -> close(s)

RECURSIVE Run(_)
Run(s) == IF s.go = "" THEN s ELSE CHOOSE r \in {Run(x) : x \in {Step(s)}} : TRUE

\* a handler runs to its next suspension and its assignments take effect
Commit(s) == \E r \in {Run(s)} : Set(r)

\* ------------------------------------------------------------------------
\* Actions: one per await, resuming the task suspended in it.

Awaiting(t, label) == pc[t] = label /\ ~cancel_req[t]

\* start(): signal handlers, then the initial connect
Start ==
    /\ pc[Main] = "start"
    /\ Commit(connect([State EXCEPT !.ctx[Main] = "init"], Main))

\* a producer: BotService.send_command, lpush
Lpush(c) ==
    /\ pushed < MaxCmds
    /\ pc[Main] # "done"
    /\ Set([State EXCEPT !.bot_commands = <<[id |-> pushed + 1, cmd |-> c]>> \o @,
                         !.pushed = @ + 1])

\* a signal flips the event
Signal_Toggle ==
    /\ pc[Main] \notin {"start", "done"}
    /\ Set([State EXCEPT !.shutdown_event = ~@])

\* SIGTERM, SIGINT or SIGHUP, any number of times: _handle_signal,
\* shutdown_event.set()
Signal ==
    /\ pc[Main] \notin {"start", "done"}
    /\ Set([State EXCEPT !.shutdown_event = TRUE])

PingConnect(t, o) ==
    /\ Awaiting(t, "ping_connect")
    /\ Commit(connect_ping(State, t, o))

Backoff(t, o) ==
    /\ Awaiting(t, "backoff")
    /\ o = "shutdown" => UsesEvent(State, t) /\ shutdown_event
    /\ Commit(connect_backoff(State, t, o))

LockAcquire(t) ==
    /\ Awaiting(t, "lock_wait")
    /\ lock = -1
    /\ Commit(connect_locked([State EXCEPT !.lock = t], t))

PingEnsure(t, o) ==
    /\ Awaiting(t, "ping_ensure")
    /\ Commit(ensure_ping(State, t, o))

Hset(t, o) ==
    /\ Awaiting(t, "hset")
    /\ Commit(hset_done(State, t, o))

\* line 25: wait_for(wait_for_shutdown(), timeout=1.0) without a connection
NoConnWait(o) ==
    /\ pc[Main] = "noconn_wait"
    /\ o = "shutdown" => shutdown_event
    /\ Commit(loop_wait_done(State, o))

\* a pop from the left end, the end lpush writes to
BrpopReturns_Left ==
    /\ redis_task = "pending"
    /\ bot_commands # <<>>
    /\ Set(done_callback(
               [State EXCEPT !.redis_task = "result",
                             !.pop_result = bot_commands[1],
                             !.bot_commands = Tail(@)], PopId))

\* the brpop of redis_task returns the right end of the list
BrpopReturns ==
    /\ redis_task = "pending"
    /\ bot_commands # <<>>
    /\ Set(done_callback(
               [State EXCEPT !.redis_task = "result",
                             !.pop_result = bot_commands[Len(bot_commands)],
                             !.bot_commands = SubSeq(@, 1, Len(@) - 1)], PopId))

BrpopFails(e) ==
    /\ redis_task = "pending"
    /\ Set(done_callback([State EXCEPT !.redis_task = e], PopId))

\* shutdown_task: wait_for_shutdown() returns
ShutdownTaskDone ==
    /\ shutdown_task = "pending"
    /\ shutdown_event
    /\ Set([State EXCEPT !.shutdown_task = "done"])

\* a wait for the brpop alone
Race_RedisOnly ==
    /\ pc[Main] = "race"
    /\ redis_task # "pending"
    /\ Commit(race_return(State))

\* asyncio.wait(..., FIRST_COMPLETED) returns
Race ==
    /\ pc[Main] = "race"
    /\ redis_task # "pending" \/ shutdown_task = "done"
    /\ Commit(race_return(State))

\* the cancelled pending task ends
PendingCancelled ==
    /\ redis_task = "cancelling" \/ shutdown_task = "cancelling"
    /\ Set(LET s1 == [State EXCEPT
                          !.redis_task = IF @ = "cancelling" THEN "cancelled" ELSE @,
                          !.shutdown_task = IF @ = "cancelling" THEN "cancelled" ELSE @]
           IN IF redis_task = "cancelling" THEN done_callback(s1, PopId) ELSE s1)

\* `await task` of the pending task resumes
Drain ==
    /\ pc[Main] = "drain"
    /\ redis_task # "cancelling" /\ shutdown_task # "cancelling"
    /\ Commit(AfterRace(State))

\* `await self._market_data_task` resumes
AwaitSim ==
    /\ pc[Main] = "await_sim"
    /\ ~Live(State, market_data_task)
    /\ Commit(cleanup_done(State))

\* the cooldown after an error resumes
CooldownDone(o) ==
    /\ pc[Main] \in {"cooldown1", "cooldown5"}
    /\ o = "shutdown" => shutdown_event
    /\ Commit(loop_wait_done(State, o))

\* asyncio.gather in cancel_tasks resumes
Gather ==
    /\ pc[Main] = "gather"
    /\ \A k \in gathered \cap Sims : ~Live(State, k)
    /\ PopId \in gathered => redis_task # "cancelling"
    /\ Commit(run_shutdown_callbacks(State))

Aclose ==
    /\ pc[Main] = "aclose"
    /\ Commit(aclose_done(State))

\* `await callback()` resumes: the callback returned, or raised an Exception
CallbackDone(o) ==
    /\ pc[Main] = "callback"
    /\ Commit(callback_done(State, o))

\* the simulator task runs for the first time
SimStart(k) ==
    /\ Awaiting(k, "created")
    /\ Commit(SimLoop(State, k))

\* wait_for(wait_for_shutdown(), timeout=1.0) of the simulator resumes
Tick(k, o, d) ==
    /\ Awaiting(k, "tick_wait")
    /\ o = "shutdown" => shutdown_event
    /\ o = "timeout" /\ running /\ ~shutdown_event => ticks < MaxTicks
    /\ Commit(IF o = "shutdown" THEN Finish(State, k, "done")
               ELSE simulate_trading_activity(State, k, d))

\* the 5 s wait of the simulator's except clause resumes: the handler of
\* market_handler.py is outside the while loop, that of main.py inside it
SimErrWait(k) ==
    /\ Awaiting(k, "err_wait")
    /\ Set(IF variant = "modular" THEN Finish(State, k, "done")
           ELSE SimLoop(State, k))

\* CancelledError is thrown into the simulator at its await
SimCancelled(k) ==
    /\ cancel_req[k]
    /\ Live(State, k)
    /\ Set(IF pc[k] \in {"created", "err_wait"}
           THEN Finish(State, k, "cancelled")
           ELSE Finish(Release(State, k), k, "done"))

Next ==
    \/ Start
    \/ \E c \in Commands : Lpush(c)
    \/ Signal
    \/ \E t \in Tasks, o \in PingOutcomes : PingConnect(t, o)
    \/ \E t \in Tasks, o \in {"timeout", "shutdown"} : Backoff(t, o)
    \/ \E t \in Tasks : LockAcquire(t)
    \/ \E t \in Tasks, o \in PingOutcomes : PingEnsure(t, o)
    \/ \E t \in Tasks, o \in HsetOutcomes : Hset(t, o)
    \/ \E o \in {"timeout", "shutdown"} : NoConnWait(o)
    \/ BrpopReturns
    \/ \E e \in BrpopErrors : BrpopFails(e)
    \/ ShutdownTaskDone
    \/ Race
    \/ PendingCancelled
    \/ Drain
    \/ AwaitSim
    \/ \E o \in {"timeout", "shutdown"} : CooldownDone(o)
    \/ Gather
    \/ Aclose
    \/ \E k \in Sims : SimStart(k)
    \/ \E k \in Sims, o \in {"timeout", "shutdown"}, d \in Deltas : Tick(k, o, d)
    \/ \E k \in Sims : SimErrWait(k)
    \/ \E k \in Sims : SimCancelled(k)

Spec == Init /\ [][Next]_vars


\* ------------------------------------------------------------------------
\* Properties

NoSimLive == \A k \in Sims : ~Live(State, k)

LiveSims == {k \in Sims : Live(State, k)}

Recognized == {"START", "STOP"}

RECURSIVE LastRecognized(_)
\* the most recent START or STOP of a sequence of commands, "NONE" without one
LastRecognized(seq) ==
    IF seq = <<>> THEN "NONE"
    ELSE IF seq[Len(seq)].cmd \in Recognized THEN seq[Len(seq)].cmd
    ELSE LastRecognized(SubSeq(seq, 1, Len(seq) - 1))

\* process_commands is running and the loop is not inside _handle_command
InLoop == loop_exit = "running"

\* C1: while process_commands runs, bot.running is true iff the most recent
\* recognized command handed to _handle_command was START (false when none
\* was).  The flag changes in the same step that starts the dispatch, so
\* the equality holds in every state of the loop, in particular after each
\* dispatch has completed.
C1_RunningTracksLastCommand ==
    InLoop => (running <=> LastRecognized(dispatched) = "START")

C1_Witness ==
    /\ InLoop
    /\ Len(dispatched) = 2
    /\ dispatched[1].cmd = "START"
    /\ dispatched[2].cmd = "PING"
    /\ running
    /\ pc[Main] = "race"

\* C2: at most one simulator task created by the loop is live.
C2_AtMostOneSimulator == Cardinality(LiveSims) <= 1

C2_Witness ==
    /\ Len(dispatched) = 2
    /\ dispatched[1].cmd = "START"
    /\ dispatched[2].cmd = "START"
    /\ pc[Main] = "race"
    /\ Cardinality(LiveSims) = 1
    /\ nsims = 1

\* C3: the i-th command handed to _handle_command is the i-th command the
\* producers pushed: commands are dispatched in the order of their lpush.
C3_FifoDispatch ==
    \A i \in 1..Len(dispatched) : dispatched[i].id = i

C3_Witness ==
    /\ Len(dispatched) = 2
    /\ dispatched[1].id = 1
    /\ dispatched[2].id = 2
    /\ dispatched[1].cmd # dispatched[2].cmd

\* C4: while a brpop is in flight the loop is suspended in the race and not
\* inside _handle_command: no cancellation of a simulator is pending, no
\* status publish of the loop is under way, and after a STOP no simulator
\* is live.
C4_OneCommandAtATime ==
    redis_task = "pending" =>
        /\ pc[Main] = "race"
        /\ ctx[Main] # "dispatch"
        /\ snap[Main] = NoSnap
        /\ \A k \in Sims : ~cancel_req[k]
        /\ LastRecognized(dispatched) = "STOP" => NoSimLive

C4_Witness ==
    /\ redis_task = "pending"
    /\ Len(dispatched) = 2
    /\ dispatched[1].cmd = "START"
    /\ dispatched[2].cmd = "STOP"
    /\ pc[1] \in {"done", "cancelled"}
    /\ bot_status.running = "False"

\* the dispatch of a STOP has completed and no START was dispatched since
AfterStop ==
    /\ InLoop
    /\ LastRecognized(dispatched) = "STOP"
    /\ ctx[Main] # "dispatch"

\* the loop is publishing the status of a STOP
StopPublishing ==
    /\ pc[Main] = "hset"
    /\ ctx[Main] = "dispatch"
    /\ LastRecognized(dispatched) = "STOP"

\* C5: once the dispatch of a STOP has completed, and until a START is
\* dispatched, no simulator is live, pnl does not change and no simulator
\* is in a status publish; the status record the STOP dispatch writes to
\* bot_status has running False.
C5_StopQuiesces ==
    /\ [](AfterStop => NoSimLive)
    /\ [](StopPublishing => snap[Main].running = PyStr(FALSE))
    /\ [][AfterStop => pnl' = pnl]_vars
    /\ [][StopPublishing /\ bot_status' # bot_status
            => bot_status'.running = PyStr(FALSE)]_vars

C5_Witness ==
    /\ AfterStop
    /\ ticks >= 1
    /\ pnl # 0
    /\ pc[1] \in {"done", "cancelled"}
    /\ bot_status.running = PyStr(FALSE)
    /\ bot_status.pnl = pnl

\* cancel_tasks() of the modular shutdown() has returned
CancelTasksReturned ==
    /\ variant = "modular"
    /\ loop_exit \in {"returned", "raised"}
    /\ pc[Main] \in {"aclose", "done"}

\* the registered tasks that have not ended
Unfinished ==
    LiveSims \cup (IF redis_task \in {"pending", "cancelling"} THEN {PopId} ELSE {})

\* C6: the registry holds only tasks that were registered and have not
\* ended; after cancel_tasks() returned it is empty and every task that was
\* registered has ended.
C6_RegistryDrained ==
    /\ registry \subseteq Unfinished
    /\ CancelTasksReturned => registry = {} /\ Unfinished = {}

C6_Witness ==
    /\ CancelTasksReturned
    /\ gathered # {}
    /\ registry = {}
    /\ \E k \in gathered : pc[k] \in {"done", "cancelled"}

\* C7 (as stated): when process_commands has handed control back, by return
\* or by an error, no simulator started by the loop is live.
C7_NoSimulatorAfterExit ==
    loop_exit \in {"returned", "raised"} => NoSimLive

\* ---- fairness: the event loop runs every task that is ready, timers fire,
\* ---- and a store operation that was issued ends with some outcome.  The
\* ---- producers, the signal and the outcome of the brpop are not constrained.

\* task t resumes from an await inside the connection manager or hset
ConnStep(t) ==
    \/ \E o \in PingOutcomes : PingConnect(t, o) \/ PingEnsure(t, o)
    \/ \E o \in {"timeout", "shutdown"} : Backoff(t, o)
    \/ LockAcquire(t)
    \/ \E o \in HsetOutcomes : Hset(t, o)

MainStep ==
    \/ Start \/ Race \/ Drain \/ AwaitSim \/ Gather \/ Aclose
    \/ \E o \in {"timeout", "shutdown"} : NoConnWait(o) \/ CooldownDone(o)
    \/ ConnStep(Main)

SimStep(k) ==
    \/ SimStart(k) \/ SimErrWait(k) \/ SimCancelled(k)
    \/ \E o \in {"timeout", "shutdown"}, d \in Deltas : Tick(k, o, d)
    \/ ConnStep(k)

SubtaskStep == ShutdownTaskDone \/ PendingCancelled

FairSpec ==
    /\ Spec
    /\ WF_vars(MainStep)
    /\ \A k \in Sims : WF_vars(SimStep(k))
    /\ WF_vars(SubtaskStep)

\* C8: if the shutdown event is set while process_commands runs, then
\* eventually process_commands has handed control back and no simulator is
\* live.
C8_ShutdownTerminates ==
    (shutdown_event /\ InLoop) ~> (loop_exit \in {"returned", "raised"} /\ NoSimLive)

C8_Witness ==
    /\ shutdown_event
    /\ InLoop
    /\ pc[Main] = "race"
    /\ redis_task = "pending"
    /\ \E k \in Sims : pc[k] = "tick_wait"

\* C9: when start() of main.py is over after process_commands ran, however
\* process_commands ended, the teardown has run: bot.running is false and
\* the connection is closed (or there is none).
C9_TeardownAlwaysRuns ==
    variant = "monolithic" /\ pc[Main] = "done" /\ loop_exit # "no"
        => /\ loop_exit \in {"returned", "raised"}
           /\ ~running
           /\ redis \in {"None", "closed"}

C9_Witness ==
    /\ variant = "monolithic"
    /\ pc[Main] = "done"
    /\ loop_exit = "raised"
    /\ redis = "closed"

\* C10 (as stated): no error raised during an iteration of the command loop
\* terminates process_commands.
C10_ErrorNeverEndsLoop == loop_exit # "raised"

\* C11 (as stated): when the 5 s wait after an error of a simulator tick is
\* over, and the simulator was not cancelled, the bot is running and no
\* shutdown is requested, the simulator task is still live (it goes on to
\* its next tick).
C11_SimulatorSurvivesError ==
    [][\A k \in Sims :
          (pc[k] = "err_wait" /\ pc'[k] # "err_wait" /\ ~cancel_req[k]
              /\ running' /\ ~shutdown_event')
          => pc'[k] \notin {"done", "cancelled"}]_vars

\* C13 (as stated): when a task is in the wait between two connection
\* attempts and the shutdown event is set, the retry sequence makes no
\* further attempt: the task does not go on to the next ping of the same
\* connect() call.  (The handle is None throughout the wait.)
C13_ShutdownAbortsRetry ==
    /\ [](\A t \in Tasks : pc[t] = "backoff" => redis = "None")
    /\ [][\A t \in Tasks :
            (pc[t] = "backoff" /\ shutdown_event /\ pc'[t] # "backoff")
            => ~(pc'[t] = "ping_connect" /\ attempt'[t] = attempt[t] + 1)]_vars

\* ------------------------------------------------------------------------
\* connect(max_retries=n) on its own: start() calls connect with n drawn from
\* 1..MaxAttempts, the pings end with any outcome, the waits time out or are
\* interrupted by the shutdown event, and the history of the calls is kept.

BackoffInit ==
    /\ Boot
    /\ max_retries \in 1..MaxAttempts
    /\ connect_log = [NoLog EXCEPT !.on = TRUE]
    /\ callbacks = IF variant = "modular" THEN shutdown_callbacks ELSE <<>>
    /\ ws = NoWait

BackoffNext ==
    \/ Start
    \/ Signal
    \/ \E o \in PingOutcomes : PingConnect(Main, o)
    \/ \E o \in {"timeout", "shutdown"} : Backoff(Main, o)

BackoffSpec == BackoffInit /\ [][BackoffNext]_vars

\* min(2^(k-1), 30)
ExpectedDelay(k) == IF 2 ^ (k - 1) < 30 THEN 2 ^ (k - 1) ELSE 30

\* C12: in a connect(max_retries=n) call the k-th wait lasts min(2^(k-1), 30)
\* seconds and at most n pings are issued; a call in which every attempt
\* failed and no shutdown intervened has issued exactly n pings and waited
\* n-1 times, after each failed attempt but the last.
C12_BackoffSequence ==
    /\ \A k \in 1..Len(connect_log.waits) :
           connect_log.waits[k] = ExpectedDelay(k)
    /\ connect_log.probes <= max_retries
    /\ connect_log.last.how = "exhausted" =>
           /\ connect_log.last.probes = max_retries
           /\ Len(connect_log.last.waits) = max_retries - 1
           /\ \A k \in 1..(max_retries - 1) :
                  /\ connect_log.last.waits[k] = ExpectedDelay(k)
                  /\ connect_log.last.waits[k] <= 30

C12_Witness ==
    /\ max_retries = 8
    /\ connect_log.last.how = "exhausted"
    /\ connect_log.last.waits = <<1, 2, 4, 8, 16, 30, 30>>
    /\ ~shutdown_event

\* C14: when the last of the max_retries attempts of a connect() call made
\* for the command loop fails (the ping on the new handle ends with a
\* ConnectionError, which sets the handle to None), connect() returns with the handle None and
\* the loop goes to its 1 s wait; when that wait times out without shutdown
\* the loop is still running and asks for a connection again.
C14_ExhaustedConnectTolerated ==
    /\ [][(/\ pc[Main] = "ping_connect"
           /\ ctx[Main] = "loop"
           /\ attempt[Main] = max_retries - 1
           /\ pc'[Main] # "ping_connect"
           /\ redis = "unprobed" /\ redis' = "None")
          => (pc'[Main] = "noconn_wait" /\ loop_exit' = "running")]_vars
    /\ [][(pc[Main] = "noconn_wait" /\ pc'[Main] # "noconn_wait" /\ ~shutdown_event')
          => (/\ pc'[Main] \in {"ping_connect", "lock_wait", "ping_ensure"}
              /\ loop_exit' = "running")]_vars

C14_Witness ==
    /\ pc[Main] = "noconn_wait"
    /\ redis = "None"
    /\ loop_exit = "running"
    /\ ~shutdown_event

\* the awaits inside get_connection()
ConnAwaits == {"ping_ensure", "ping_connect", "backoff", "lock_wait"}

\* C15 (as stated): whenever get_connection() returns a handle that is not
\* None to its caller (the loop goes on to the brpop, _update_status to the
\* hset), that handle is one on which a ping has succeeded.
C15_ReturnedHandleProbed ==
    [][\A t \in Tasks :
          (/\ variant = "modular"
           /\ pc[t] \in ConnAwaits
           /\ ctx[t] # "init"
           /\ pc'[t] \in {"race", "hset"})
          => redis' = "ok"]_vars

\* the tasks inside the retry loop of connect()
Connecting == {t \in Tasks : pc[t] \in {"ping_connect", "backoff"}}

\* the lock of connect(): one task at a time in the retry loop
OneConnectInFlight == Cardinality(Connecting) <= 1

\* C16 (as stated): at most one task is inside the retry loop of connect()
\* at any time, and a task whose ping was on a handle that has since been
\* replaced by an established connection does not discard that connection
\* when its ping ends.
C16_NoDuplicateConnection ==
    /\ []OneConnectInFlight
    /\ [][\A t \in Tasks :
            (t \in stale /\ redis = "ok" /\ pc'[t] # pc[t]) => redis' = "ok"]_vars

\* ------------------------------------------------------------------------
\* ShutdownManager with any list of callbacks: before start() the caller adds
\* up to MaxCallbacks callbacks with add_shutdown_callback, each the
\* connection close or another coroutine function.

RECURSIVE CallbackLists(_)
CallbackLists(n) ==
    IF n = 0 THEN {<<>>}
    ELSE CallbackLists(n - 1) \cup
         {Append(l, c) : l \in {x \in CallbackLists(n - 1) : Len(x) = n - 1},
                         c \in {"close", "hook"}}

ShutdownInit ==
    /\ Boot
    /\ variant = "modular"
    /\ max_retries = MaxRetries
    /\ connect_log = NoLog
    /\ callbacks \in CallbackLists(MaxCallbacks)
    /\ ws = NoWait

ShutdownNext == Next \/ \E o \in {"ok", "Exception"} : CallbackDone(o)

ShutdownSpec == ShutdownInit /\ [][ShutdownNext]_vars

\* C17: close() is idempotent. After a close() that has returned the handle is
\* None; a close() called again, or called when there is no handle, issues no
\* aclose(), does not suspend and leaves the handle None; aclose() is issued
\* at most once.
C17_CloseIdempotent ==
    /\ [](closes.releases <= 1)
    /\ []((closes.calls >= 1 /\ pc[Main] # "aclose") => redis = "None")
    /\ [][(closes.calls' > closes.calls /\ (closes.calls >= 1 \/ redis = "None"))
            => /\ closes.releases' = closes.releases
               /\ redis' = "None"
               /\ pc'[Main] # "aclose"]_vars

\* close() was called twice on an established connection, and shutdown ended
C17_Witness ==
    /\ closes.calls = 2
    /\ closes.releases = 1
    /\ pc[Main] = "done"

IsPrefix(a, b) == Len(a) <= Len(b) /\ SubSeq(b, 1, Len(a)) = a

\* C20: no shutdown callback starts before every registered task has been
\* cancelled and has finished, and the callbacks start in the order they were
\* added, each one once, all of them by the end of shutdown().
C20_DrainThenCallbacks ==
    /\ [](IsPrefix(cb_log, callbacks))
    /\ [](cb_log # <<>> =>
            /\ registry = {}
            /\ \A k \in Sims : ~Live(State, k)
            /\ \A k \in gathered \cap Sims : pc[k] \in {"done", "cancelled"}
            /\ redis_task # "cancelling")
    /\ []((pc[Main] = "done" /\ closes.calls >= 1) => cb_log = callbacks)
    /\ [][IsPrefix(cb_log, cb_log')]_vars

\* two callbacks ran in the order added, after a running simulator was
\* cancelled and awaited
C20_Witness ==
    /\ callbacks = <<"hook", "close">>
    /\ cb_log = callbacks
    /\ gathered \cap Sims # {}
    /\ pc[Main] = "done"

\* ------------------------------------------------------------------------
\* ShutdownManager.wait_with_shutdown, called once. The activity is an
\* awaitable, or something that is not; when it is cancelled it ends
\* cancelled, or returns a value after all, or raises an error of its own.

WaitTasks == {"main", "sd"}

\* task.done()
TaskDone(w, t) == w[t] \in {"value", "error", "done", "cancelled"}

\* task.cancel(): nothing on a task that is done
TaskCancel(w, t) == IF TaskDone(w, t) THEN w ELSE [w EXCEPT ![t] = "cancelling"]

\* `except Exception`: the tasks not done are cancelled, none is awaited, and
\* the error o goes on to the caller
except_Exception(w, o) ==
    [TaskCancel(TaskCancel(w, "main"), "sd") EXCEPT !.pos = "end", !.outcome = o]

\* after the loop over pending: shutdown_task in done, main_task in done, or
\* neither
race_outcome(w) ==
    IF "sd" \in w.done
    THEN [TaskCancel(w, "main") EXCEPT !.pos = "end", !.outcome = "shutdown"]
    ELSE IF "main" \in w.done
    THEN IF w.main = "value"
         THEN [w EXCEPT !.pos = "end", !.outcome = "value"]
         ELSE except_Exception(w, "error")
    ELSE except_Exception(w, "timeout")

\* `for task in pending: task.cancel(); await task`, from the next task of the
\* iteration on: cancellation of the awaited task is passed over, another
\* error of it leaves the loop
RECURSIVE cancel_pending(_)
cancel_pending(w) ==
    IF w.todo = <<>> THEN race_outcome(w)
    ELSE LET t == Head(w.todo)
             w1 == [TaskCancel(w, t) EXCEPT !.todo = Tail(@), !.cur = t]
         IN IF ~TaskDone(w1, t) THEN [w1 EXCEPT !.pos = "await_pending"]
            ELSE IF w1[t] = "error" THEN except_Exception(w1, "loser_error")
            ELSE cancel_pending(w1)

\* `await task` resumes
await_task(w) ==
    IF w[w.cur] = "error" THEN except_Exception(w, "loser_error")
    ELSE cancel_pending(w)

\* the orders in which the set pending can be iterated
PendingOrders(w) ==
    LET p == {t \in WaitTasks : ~TaskDone(w, t)} IN
    IF p = {} THEN {<<>>}
    ELSE IF p = WaitTasks THEN {<<"main", "sd">>, <<"sd", "main">>}
    ELSE {<<t>> : t \in p}

\* asyncio.wait returns done and pending as the tasks are at that moment
wait_returns(w, order) ==
    cancel_pending([w EXCEPT !.raced = TRUE, !.todo = order,
                             !.done = {t \in WaitTasks : TaskDone(w, t)}])

\* the call up to `await asyncio.wait(...)`
wait_with_shutdown(w) ==
    IF w.kind = "other"
    THEN [w EXCEPT !.sd = "pending", !.pos = "end", !.outcome = "type_error"]
    ELSE [w EXCEPT !.sd = "pending", !.main = "pending", !.pos = "wait"]

SetWs(w) == Set([State EXCEPT !.ws = w])

WaitCall ==
    /\ ws.pos = "idle"
    /\ SetWs(wait_with_shutdown(ws))

\* _handle_signal, at any time
HandleSignal ==
    /\ ~shutdown_event
    /\ Set([State EXCEPT !.shutdown_event = TRUE])

\* shutdown_event.wait() returns in the shutdown-wait task
ShutdownWaitEnds ==
    /\ ws.sd = "pending"
    /\ shutdown_event
    /\ SetWs([ws EXCEPT !.sd = "done"])

\* the activity ends on its own
ActivityEnds(r) ==
    /\ ws.main = "pending"
    /\ SetWs([ws EXCEPT !.main = r])

\* a task whose cancellation was requested runs and ends
CancelledTaskEnds(t) ==
    /\ ws[t] = "cancelling"
    /\ SetWs([ws EXCEPT ![t] = IF t = "main" THEN ws.on_cancel ELSE "cancelled"])

\* a task completed: asyncio.wait returns
WaitReturns(order) ==
    /\ ws.pos = "wait"
    /\ \E t \in WaitTasks : TaskDone(ws, t)
    /\ order \in PendingOrders(ws)
    /\ SetWs(wait_returns(ws, order))

\* the timeout passed: asyncio.wait returns
TimeoutFires(order) ==
    /\ ws.pos = "wait"
    /\ ws.timeout
    /\ order \in PendingOrders(ws)
    /\ SetWs(wait_returns(ws, order))

AwaitedTaskEnds ==
    /\ ws.pos = "await_pending"
    /\ TaskDone(ws, ws.cur)
    /\ SetWs(await_task(ws))

\* the caller is cancelled at `await asyncio.wait(...)`: CancelledError is an
\* Exception before Python 3.8 (caught) and a BaseException since
CallerCancelledInWait(caught) ==
    /\ ws.pos = "wait"
    /\ SetWs(IF caught THEN except_Exception(ws, "caller_cancelled")
             ELSE [ws EXCEPT !.pos = "end", !.outcome = "caller_cancelled"])

\* the caller is cancelled at `await task`: the CancelledError it gets when
\* the task ends is the one `except asyncio.CancelledError: pass` passes over
CallerCancelledInLoop ==
    /\ ws.pos = "await_pending"
    /\ ~ws.swallowed
    /\ SetWs([ws EXCEPT !.swallowed = TRUE])

WaitInit ==
    /\ Boot
    /\ variant = "modular"
    /\ max_retries = MaxRetries
    /\ connect_log = NoLog
    /\ callbacks = shutdown_callbacks
    /\ ws \in {[NoWait EXCEPT !.kind = k, !.timeout = b, !.on_cancel = c] :
                k \in {"awaitable", "other"}, b \in BOOLEAN,
                c \in {"cancelled", "value", "error"}}

WaitNext ==
    \/ WaitCall
    \/ HandleSignal
    \/ ShutdownWaitEnds
    \/ \E r \in {"value", "error"} : ActivityEnds(r)
    \/ \E t \in WaitTasks : CancelledTaskEnds(t)
    \/ \E order \in {<<>>, <<"main">>, <<"sd">>, <<"main", "sd">>, <<"sd", "main">>} :
           WaitReturns(order) \/ TimeoutFires(order)
    \/ AwaitedTaskEnds
    \/ \E caught \in BOOLEAN : CallerCancelledInWait(caught)
    \/ CallerCancelledInLoop

WaitSpec == WaitInit /\ [][WaitNext]_vars

\* C18: when wait_with_shutdown finishes by returning a value, by raising a
\* timeout, by raising because shutdown won or because its caller was
\* cancelled, neither the activity task nor the shutdown-wait task is still
\* running.
C18_NoTaskOutlivesRace ==
    (ws.pos = "end" /\ ws.outcome \in {"value", "timeout", "shutdown", "caller_cancelled"})
        => \A t \in WaitTasks : TaskDone(ws, t)

\* C19: once asyncio.wait has returned and the call has ended: cancellation is
\* raised if the shutdown wait was done, the result or the error of the
\* activity if only the activity was done, a timeout if neither was.
C19_RaceOutcome ==
    (ws.pos = "end" /\ ws.raced) =>
        /\ "sd" \in ws.done => ws.outcome = "shutdown"
        /\ ws.done = {"main"} => ws.outcome = ws.main /\ ws.main \in {"value", "error"}
        /\ ws.done = {} => ws.outcome = "timeout"

\* C21: a shutdown callback that raises an error does not keep the remaining
\* callbacks from running: the step that logs its error starts the next
\* callback of the list (and those after it, as far as they run without
\* suspending), or ends shutdown() when it was the last; when
\* shutdown() is over every callback was started exactly once and nothing
\* was raised.
C21_FailingCallbackTolerated ==
    /\ [](\A i \in cb_errors : i \in 1..Len(cb_log) /\ callbacks[i] # "close")
    /\ []((pc[Main] = "done" /\ cb_errors # {})
            => cb_log = callbacks /\ start_exit = "returned")
    /\ [][cb_errors' # cb_errors =>
            /\ Len(callbacks) > Len(cb_log) =>
                    IsPrefix(Append(cb_log, callbacks[Len(cb_log) + 1]), cb_log')
            /\ Len(callbacks) = Len(cb_log) =>
                    pc'[Main] = "done" /\ cb_log' = cb_log]_vars

\* the first of two callbacks raised, the second ran, shutdown() returned
C21_Witness ==
    /\ Len(callbacks) = 2
    /\ cb_errors = {1}
    /\ cb_log = callbacks
    /\ pc[Main] = "done"
    /\ start_exit = "returned"

\* C22: the shutdown event is never reset once it is set, however many
\* signals are delivered, and a wait_for_shutdown() that is pending while the
\* event is set does not stay pending.
C22_SignalOneShot ==
    /\ [][shutdown_event => shutdown_event']_vars
    /\ (shutdown_task = "pending" /\ shutdown_event) ~> (shutdown_task # "pending")

\* the wait_for_shutdown() task of the race returned on the event
C22_Witness ==
    /\ shutdown_event
    /\ shutdown_task = "done"
    /\ redis_task = "pending"
    /\ pc[Main] = "race"

\* the command handed to _handle_command in this step, NoCmd if none was
Dispatching ==
    IF Len(dispatched') = Len(dispatched) + 1
    THEN dispatched'[Len(dispatched')] ELSE NoCmd

\* the awaits of _update_status: those of get_connection, and hset
UpdateStatusAwaits == {"ping_ensure", "lock_wait", "ping_connect", "backoff", "hset"}

\* C23: a STOP dispatched while bot.running is false and no simulator is live
\* leaves bot.running false, pnl, the simulator tasks and the task handle as
\* they were, cancels nothing, and the dispatcher goes on into _update_status.
C23_IdleStopIsNoop ==
    [][(Dispatching.cmd = "STOP" /\ ~running /\ NoSimLive) =>
          /\ ~running'
          /\ pnl' = pnl
          /\ nsims' = nsims
          /\ market_data_task' = market_data_task
          /\ cancel_req' = cancel_req
          /\ \A k \in Sims : pc'[k] = pc[k]
          /\ ctx'[Main] = "dispatch"
          /\ pc'[Main] \in UpdateStatusAwaits]_vars

\* the publish of a STOP that found the bot idle is in flight
C23_Witness ==
    /\ Len(dispatched) = 1
    /\ dispatched[1].cmd = "STOP"
    /\ pc[Main] = "hset"
    /\ ctx[Main] = "dispatch"
    /\ snap[Main].running = "False"
    /\ nsims = 0

\* the dispatcher is inside the _update_status call of _handle_command
InDispatchPublish == ctx[Main] = "dispatch" /\ pc[Main] \in UpdateStatusAwaits

\* C24: the dispatch of a START or a STOP makes exactly one _update_status
\* call of its own, after bot.running was written: the dispatch step ends
\* inside that call (for a STOP with a live simulator, inside the await of
\* the cancelled simulator, which leads nowhere but into the call); the call
\* issues at most one hset, with the status as the command left it; and
\* leaving the call ends the dispatch.
C24_OnePublishPerDispatch ==
    /\ [][Dispatching.cmd \in Recognized =>
            /\ running' = (Dispatching.cmd = "START")
            /\ ctx'[Main] = "dispatch"
            /\ pc'[Main] \in UpdateStatusAwaits \cup {"await_sim"}
            /\ pc'[Main] = "await_sim" => Dispatching.cmd = "STOP"]_vars
    /\ [][(pc[Main] = "await_sim" /\ ctx[Main] = "dispatch" /\ pc'[Main] # "await_sim")
            => ctx'[Main] = "dispatch" /\ pc'[Main] \in UpdateStatusAwaits]_vars
    /\ [][(InDispatchPublish /\ (pc[Main] = "hset" \/ ~InDispatchPublish'))
            => (pc'[Main] = pc[Main] \/ ctx'[Main] # "dispatch")]_vars
    /\ []((pc[Main] = "hset" /\ ctx[Main] = "dispatch")
            => snap[Main].running = PyStr(LastRecognized(dispatched) = "START"))

\* the publish of a START that found the bot running and its simulator live
C24_Witness ==
    /\ Len(dispatched) = 2
    /\ dispatched[1].cmd = "START"
    /\ dispatched[2].cmd = "START"
    /\ nsims = 1
    /\ pc[Main] = "hset"
    /\ ctx[Main] = "dispatch"
    /\ snap[Main].running = "True"

\* C25: a popped command that is neither START nor STOP changes nothing and
\* raises nothing: in the step that hands it to _handle_command,
\* bot.running, pnl, the status record and the simulator tasks stay as they
\* are, no _update_status call and no cooldown begins, and unless the
\* shutdown event is set the loop is on its way to the next pop, in the
\* get_connection() of the next iteration.
C25_UnknownCommandIgnored ==
    [][(Dispatching # NoCmd /\ Dispatching.cmd \notin Recognized) =>
          /\ pnl' = pnl
          /\ bot_status' = bot_status
          /\ nsims' = nsims
          /\ ctx'[Main] # "dispatch"
          /\ pc'[Main] \notin {"hset", "cooldown1", "cooldown5"}
          /\ loop_exit' # "raised"
          /\ ~shutdown_event =>
                /\ running' = running
                /\ market_data_task' = market_data_task
                /\ cancel_req' = cancel_req
                /\ \A k \in Sims : pc'[k] = pc[k]
                /\ loop_exit' = "running"
                /\ ctx'[Main] = "loop"
                /\ pc'[Main] \in ConnAwaits]_vars

\* an unknown command was dispatched while the bot runs with a live
\* simulator, and the loop waits for the next pop
C25_Witness ==
    /\ Len(dispatched) = 2
    /\ dispatched[1].cmd = "START"
    /\ dispatched[2].cmd = "PING"
    /\ running
    /\ \E k \in Sims : Live(State, k)
    /\ pc[Main] = "race"
    /\ redis_task = "pending"
    /\ bot_commands = <<>>

\* C26: every status mapping built for an hset carries running as "true" when
\* bot.running is true and as "false" when it is false, and so does the
\* record the store holds.
C26_RunningFieldLowerCase ==
    /\ [](bot_status # NoSnap => bot_status.running \in {"true", "false"})
    /\ [][\A t \in Tasks : (snap'[t] # snap[t] /\ snap'[t] # NoSnap)
                              => snap'[t].running = IF running' THEN "true" ELSE "false"]_vars

\* the awaits of the simulator task, and its state before it first runs
SimAwaits == {"created", "tick_wait", "err_wait", "hset"} \cup ConnAwaits

\* C27: the simulator task ends by returning or by the cancellation it was
\* sent, never with another error: every step of it leads to one of its
\* awaits or to one of these two ends; it ends cancelled only when
\* cancel() was called on it; cancelled in the 1 s wait, in the publish or
\* in the 5 s wait its next step is its end; and once it is cancelled, or
\* the shutdown event is set, or bot.running is false, it does end.
C27_SimulatorEndsCleanly ==
    /\ [][\A k \in Sims : pc'[k] # pc[k] =>
              /\ pc'[k] \in SimAwaits \cup {"done", "cancelled"}
              /\ pc'[k] = "cancelled" => cancel_req[k]
              /\ (cancel_req[k] /\ pc[k] \in {"tick_wait", "hset", "err_wait"})
                    => pc'[k] \in {"done", "cancelled"}]_vars
    /\ \A k \in Sims :
          (Live(State, k) /\ (cancel_req[k] \/ shutdown_event \/ ~running))
              ~> ~Live(State, k)

\* a simulator has ended by the cancellation a STOP sent it, and the STOP
\* went on to its publish
C27_Witness ==
    \E k \in Sims :
        /\ pc[k] = "cancelled"
        /\ Len(dispatched) = 2
        /\ dispatched[2].cmd = "STOP"
        /\ ctx[Main] = "dispatch"
        /\ pc[Main] \in UpdateStatusAwaits
        /\ ~running

\* simulator k is inside the status callback of a tick
InTickPublish(k) == ctx[k] = "tick" /\ pc[k] \in UpdateStatusAwaits

\* C28: pnl changes only in a step in which a simulator comes out of its 1 s
\* wait; bot.running is true and the shutdown event is not set in that step;
\* the change is at most 10 either way; the step ends inside the status
\* callback (in main.py the callback returns at once when there is no
\* handle); the callback is entered by ticks only and left for the loop of
\* the simulator or its end.
C28_PnlOnlyByTicks ==
    /\ [][pnl' # pnl =>
            /\ running /\ running' /\ ~shutdown_event /\ ~shutdown_event'
            /\ pnl' - pnl \in -10..10
            /\ ticks' = ticks + 1
            /\ \E k \in Sims :
                  /\ pc[k] = "tick_wait"
                  /\ InTickPublish(k)' \/ (variant = "monolithic" /\ redis = "None")]_vars
    /\ [][\A k \in Sims :
              /\ (InTickPublish(k)' /\ ~InTickPublish(k)) => pnl' # pnl
              /\ (InTickPublish(k) /\ ~InTickPublish(k)')
                    => pc'[k] \in {"tick_wait", "err_wait", "done", "cancelled"}]_vars

\* a tick moved pnl and its status was written
C28_Witness ==
    /\ pnl # 0
    /\ ticks = 1
    /\ bot_status.pnl = pnl
    /\ bot_status.running = "True"
    /\ \E k \in Sims : pc[k] = "tick_wait"

\* the loop goes on past the race in this step
LeavingRace == pc[Main] \in {"race", "drain"} /\ pc'[Main] \notin {"race", "drain"}

\* C29: when the loop goes on past the race, neither the pop task nor the
\* shutdown-wait task of the iteration is pending or being cancelled; if the
\* shutdown-wait task was in done, nothing is dispatched and the loop is
\* left; if only the pop task was in done and it holds a command, that
\* command is dispatched.
C29_RaceOutcome ==
    [][LeavingRace =>
          /\ redis_task \notin {"pending", "cancelling"}
          /\ shutdown_task \notin {"pending", "cancelling"}
          /\ "shutdown" \in race_done =>
                /\ Dispatching = NoCmd
                /\ loop_exit' = "returned" \/ (pc'[Main] = "await_sim" /\ ctx'[Main] = "exit")
          /\ (race_done = {"redis"} /\ redis_task = "result") =>
                Dispatching = pop_result]_vars

\* C30: without a connection the loop issues no pop: the step in which
\* get_connection() hands None to the loop ends in the 1 s wait with no pop
\* task and no shutdown-wait task, and a race is only entered with a handle;
\* the wait is left for the get_connection() of the next iteration, or, when
\* the shutdown event is set, for the exit of the loop.
C30_NoPopWithoutConnection ==
    /\ [](pc[Main] = "noconn_wait" =>
            redis_task = "none" /\ shutdown_task = "none" /\ PopId \notin registry)
    /\ [][(ctx[Main] = "loop" /\ pc[Main] \in ConnAwaits /\ pc'[Main] \notin ConnAwaits
              /\ redis' = "None" /\ loop_exit' = "running")
            => pc'[Main] = "noconn_wait"]_vars
    /\ [][(pc'[Main] = "race" /\ pc[Main] # "race") => redis' # "None"]_vars
    /\ [][(pc[Main] = "noconn_wait" /\ pc'[Main] # "noconn_wait") =>
            IF shutdown_event
            THEN loop_exit' = "returned" \/ (pc'[Main] = "await_sim" /\ ctx'[Main] = "exit")
            ELSE ctx'[Main] = "loop" /\ pc'[Main] \in ConnAwaits]_vars

\* a command is queued, there is no connection, and the loop is in its 1 s
\* wait with the shutdown event set
C30_Witness ==
    /\ pc[Main] = "noconn_wait"
    /\ redis = "None"
    /\ bot_commands # <<>>
    /\ shutdown_event
    /\ dispatched = <<>>

\* the loop is left by break in this step: the cleanup of line 87 is under
\* way, or process_commands has returned
LoopBreaks ==
    \/ loop_exit' = "returned"
    \/ pc'[Main] = "await_sim" /\ ctx'[Main] = "exit"

\* the next iteration begins in this step: the loop is in get_connection()
LoopRetries == ctx'[Main] = "loop" /\ pc'[Main] \in ConnAwaits

\* C31: when the loop goes on past the race with a pop that failed with a
\* redis.RedisError, nothing is dispatched; the loop enters the 5 s wait
\* with bot.running, the simulator tasks and the task handle as they were
\* (it breaks instead only when the shutdown event is already set); the
\* wait holds no pop; it is left for the get_connection() of the next
\* iteration, or for the exit of the loop when the shutdown event is set.
C31_PopErrorCooldown ==
    /\ [][(LeavingRace /\ redis_task = "RedisError") =>
            /\ Dispatching = NoCmd
            /\ \/ /\ pc'[Main] = "cooldown5"
                  /\ running' = running
                  /\ nsims' = nsims
                  /\ market_data_task' = market_data_task
                  /\ cancel_req' = cancel_req
                  /\ \A k \in Sims : pc'[k] = pc[k]
               \/ shutdown_event /\ LoopBreaks]_vars
    /\ [](pc[Main] = "cooldown5" =>
            redis_task = "none" /\ shutdown_task = "none" /\ PopId \notin registry)
    /\ [][(pc[Main] = "cooldown5" /\ pc'[Main] # "cooldown5") =>
            /\ Dispatching = NoCmd
            /\ IF shutdown_event THEN LoopBreaks
               ELSE LoopRetries /\ running' = running]_vars

\* the bot runs, the START was published, and the pop of the next iteration
\* failed: the loop is in the 5 s wait with the simulator live
C31_Witness ==
    /\ pc[Main] = "cooldown5"
    /\ Len(dispatched) = 1
    /\ dispatched[1].cmd = "START"
    /\ bot_status.running = "True"
    /\ ticks = 0
    /\ running
    /\ \E k \in Sims : Live(State, k)

\* task t issues a status write in this step
Issues(t) == snap'[t] # NoSnap /\ (snap[t] = NoSnap \/ pc[t] # "hset")

\* the tasks with a status write in flight
Publishing == {t \in Tasks : snap[t] # NoSnap}

\* C32: a status write carries bot.running and bot.pnl as they are when the
\* write is issued, whichever task issues it and whatever the step did
\* before; a write in flight is issued from the await of hset only; of two
\* writes in flight with different records one carries the present state,
\* so that the later one is never the older one.
C32_PublishCarriesPresentState ==
    /\ [][\A t \in Tasks : Issues(t) =>
            /\ snap'[t].running = PyStr(running')
            /\ snap'[t].pnl = pnl'
            /\ pc'[t] = "hset"]_vars
    /\ [](\A t \in Publishing : pc[t] = "hset")
    /\ [](\A t, u \in Publishing :
            snap[t] # snap[u] => get_status(State) \in {snap[t], snap[u]})

\* the publish of a START and the publish of a tick are in flight together,
\* the tick's record being the newer one
C32_Witness ==
    /\ snap[Main] # NoSnap
    /\ ctx[Main] = "dispatch"
    /\ \E k \in Sims : /\ snap[k] # NoSnap
                       /\ snap[k].pnl # snap[Main].pnl
                       /\ snap[k].pnl = pnl

\* the dispatch in progress ends in this step
DispatchEnds == ctx[Main] = "dispatch" /\ ctx'[Main] # "dispatch"

\* C33 (as stated): a START or STOP dispatch applies its state change in the
\* step that begins it (START: bot.running true and a live simulator; STOP:
\* bot.running false and the simulator cancelled if one was live), and the
\* dispatch ends without an error reaching the except clauses of the loop,
\* whatever the connection and the store do.
C33_DispatchNeverRaises ==
    /\ [][Dispatching.cmd = "START" =>
            running' /\ Live(State', market_data_task')]_vars
    /\ [][Dispatching.cmd = "STOP" =>
            /\ ~running'
            /\ \A k \in Sims : Live(State, k) => cancel_req'[k]]_vars
    /\ [][DispatchEnds => pc'[Main] \notin {"cooldown1", "cooldown5"}]_vars

\* C34 (as stated): once process_commands has handed control back, every
\* command the pop took off bot_commands was handed to _handle_command: the
\* commands pushed are those dispatched and those still in the list.
C34_NoPoppedCommandLost ==
    loop_exit \in {"returned", "raised"} =>
        pushed = Len(dispatched) + Len(bot_commands)

\* C35 (as stated): while the loop is suspended in the race with the pop
\* pending and the shutdown event is not set, a simulator task is live if
\* and only if bot.running is true.
C35_SimulatorLiveIffRunning ==
    (pc[Main] = "race" /\ redis_task = "pending" /\ ~shutdown_event) =>
        (running <=> LiveSims # {})

\* C36 (as stated): while no task is inside an attempt of connect() (its
\* ping or the wait between two attempts), the handle is None or a
\* connection on which a ping has succeeded.
C36_HandleProbedWhenIdle ==
    Connecting = {} => redis # "unprobed"

\* self.redis stops holding the connection object it held: it becomes None,
\* a closed object, or another object
HandleDropped ==
    \/ redis \in {"unprobed", "ok"} /\ redis' \in {"None", "closed"}
    \/ redis = "ok" /\ redis' = "unprobed"

\* C37 (as stated): the handle stops holding a connection object only in
\* the step in which the aclose() issued on that object returns, so that
\* every object created is the handle or was closed.
C37_DroppedHandleClosed ==
    [][HandleDropped => pc[Main] = "aclose" /\ pc'[Main] # "aclose"]_vars

\* ---- the program with the RedisManager, whose connect() takes the lock.
\* ---- Fairness: a task suspended in connect() or in a status write resumes,
\* ---- a cancelled task ends, and asyncio.Lock wakes its waiters in the
\* ---- order they arrived, so that a waiter is not passed over for ever by
\* ---- tasks that came later.
LockInit == Init /\ variant = "modular"

LockFairSpec ==
    /\ LockInit /\ [][Next]_vars
    /\ \A t \in Tasks : WF_vars(ConnStep(t))
    /\ \A k \in Sims : WF_vars(SimCancelled(k))
    /\ \A t \in Tasks : SF_vars(LockAcquire(t))

\* C38: the connection lock is held only by a task that is inside an attempt
\* of connect() (its ping or its wait between attempts): it is released when
\* connect() returns, raises, or its task is cancelled; and a task that
\* waits for the lock does not wait for ever.
C38_LockAlwaysReleased ==
    /\ [](lock # -1 => lock \in Tasks /\ pc[lock] \in {"ping_connect", "backoff"})
    /\ \A t \in Tasks : (pc[t] = "lock_wait") ~> (pc[t] # "lock_wait")

\* the loop waits for the lock while the simulator holds it in the wait
\* between two attempts
C38_Witness ==
    /\ pc[Main] = "lock_wait"
    /\ \E k \in Sims : lock = k /\ pc[k] = "backoff"

\* process_commands of main.py has handed control back to start()
InFinally == variant = "monolithic" /\ loop_exit \in {"returned", "raised"}

\* C39: in main.py, from the finally clause of start() on, bot.running is
\* false, and it is false when start() has finished; the step that enters
\* the finally clause with a handle issues a status write with running
\* False; every write issued from then on carries running False; and the
\* write of the finally clause, when the store accepts it, leaves a record
\* with running False in bot_status.
C39_FinalStatusNotRunning ==
    /\ [](InFinally => ~running)
    /\ []((variant = "monolithic" /\ pc[Main] = "done") => ~running)
    /\ [][(InFinally' /\ ~InFinally /\ redis' # "None") =>
            /\ pc'[Main] = "hset" /\ ctx'[Main] = "teardown"
            /\ snap'[Main].running = "False"]_vars
    /\ [][InFinally' => \A t \in Tasks : Issues(t) => snap'[t].running = "False"]_vars
    /\ [][(InFinally /\ pc[Main] = "hset" /\ pc'[Main] # "hset"
              /\ bot_status' # bot_status) => bot_status'.running = "False"]_vars

\* start() of main.py has returned after a shutdown that found the bot
\* running: a START was dispatched and published, and the record left in
\* bot_status has running False
C39_Witness ==
    /\ variant = "monolithic"
    /\ pc[Main] = "done"
    /\ start_exit = "returned"
    /\ LastRecognized(dispatched) = "START"
    /\ shutdown_event
    /\ ticks = 1
    /\ bot_status = [running |-> "False", pnl |-> pnl, positions |-> 0]
    /\ redis = "closed"

\* the same state in the hands of the other variant of the loop
Other(s) ==
    [s EXCEPT !.variant = IF @ = "modular" THEN "monolithic" ELSE "modular"]

\* what the resumed loop has done, as seen from outside: the commands it
\* dispatched and the simulators it started (bot.running follows from the
\* command dispatched; when the loop is left is not an observation)
LoopObs(s) ==
    [dispatched |-> s.dispatched, nsims |-> s.nsims]

\* the loop is about to resume after the race: asyncio.wait has returned and
\* the pending task was cancelled and has ended
RaceSettled ==
    /\ loop_exit = "running"
    /\ pc[Main] = "drain"
    /\ redis_task # "cancelling"
    /\ shutdown_task # "cancelling"

\* C40 (as stated): wherever the loop resumes after the race, with whatever
\* commands queued and wherever the shutdown signal arrived, the loop of
\* main.py and the loop of command_handler.py do the same: they dispatch
\* the same command or none and start the same simulator or none.
C40_SameRaceOutcome ==
    RaceSettled =>
        LoopObs(Run(AfterRace(State))) = LoopObs(Run(AfterRace(Other(State))))

====
